---- MODULE Spec2Model ----
(***************************************************************************)
(* Model of the form layer of ralph_assets (src/forms.py): the multi-value *)
(* parser for serial numbers and barcodes, the uniqueness checks against   *)
(* the asset store, the add-device / add-part validation, the handling of  *)
(* the mode argument by the form constructors, clean_size, and the edit    *)
(* and bulk-edit submissions the tests exercise.                           *)
(*                                                                         *)
(* A Python string is modelled as a sequence of one-character strings, so  *)
(* that strip, split and the membership tests are computed character by    *)
(* character as the interpreter computes them.                             *)
(***************************************************************************)
EXTENDS Integers, Sequences, FiniteSets, TLC

VARIABLES
    arg,          \* the argument of the function applied on its own: the
                  \* string handed to _validate_multivalue_data, or the
                  \* size read by clean_size
    ret,          \* what the call returned or raised; NotRun before the call
    store,        \* the Asset table: the rows in order of insertion
    pc,           \* where each request stands in its view
    form,         \* the form class each request is bound to
    cleaned_data, \* each request's form.cleaned_data (sn and barcode lists)
    errors,       \* each request's form.errors on the sn and barcode fields
    idx,          \* each request's position in the view's loop creating assets
    post,         \* request.POST of the submission followed field by field
    calls,        \* the parser and store calls its validation made, in order
    ctor,         \* a form constructor call: its arguments and how far it got
    formset       \* a bulk-edit submission: its rows and how far it got

vars == <<arg, ret, store, pc, form, cleaned_data, errors, idx,
          post, calls, ctor, formset>>
parser_vars == <<arg, ret>>
request_vars == <<pc, form, cleaned_data, errors, idx>>
submission_vars == <<post, calls>>
\* What the steps of a request leave alone.
other_vars == <<parser_vars, submission_vars, ctor, formset>>

(***************************************************************************)
(* Bounds and input alphabets.                                             *)
(***************************************************************************)
\* Longest enumerated input string of the parser.
MaxLen == 5

\* Most tokens in one submitted serial-number or barcode field.
MaxBatch == 2

\* The requests in flight, each with the mode of the URL it was posted to.
Requests == {"r1", "r2"}

\* Two token characters, the two separators, and two whitespace characters:
\* the space (which the code tests for) and the tab (another one).
Alphabet == {"a", "b", " ", "\t", ",", "\n"}

\* All strings over Alphabet of length at most n.
Strings(n) == UNION {[1..k -> Alphabet] : k \in 0..n}

\* The example inputs that the specification's sections 4.1 and 8 name.
SpecExamples ==
    { <<"a", ",", "b", ",", "c">>,
      <<"a", "\n", "b", "\n", "c">>,
      <<"a", " ", "b", ",", "c", ",", "c">>,
      <<"c", ",", "c", ",", "a", " ", "b">>,
      <<" ", " ", " ">> }

ParserInputs == Strings(MaxLen) \cup SpecExamples

(***************************************************************************)
(* Python string primitives used by the parser.                            *)
(***************************************************************************)
\* The characters unicode.strip() removes (those for which isspace() holds)
\* that can be written here.
Whitespace == {" ", "\t", "\n", "\r", "\f"}

\* The separators of the pattern ",|\n".
Separators == {",", "\n"}

Range(s) == {s[i] : i \in DOMAIN s}

RECURSIVE lstrip(_)
lstrip(s) ==
    IF s = <<>> THEN s
    ELSE IF Head(s) \in Whitespace THEN lstrip(Tail(s)) ELSE s

RECURSIVE rstrip(_)
rstrip(s) ==
    IF s = <<>> THEN s
    ELSE IF s[Len(s)] \in Whitespace THEN rstrip(SubSeq(s, 1, Len(s) - 1)) ELSE s

\* item.strip(): leading and trailing whitespace removed.
strip(s) == rstrip(lstrip(s))

\* re.split(",|\n", s): the fragments between separators, empty ones included.
RECURSIVE split_on(_, _)
split_on(s, seps) ==
    IF \A i \in DOMAIN s : s[i] \notin seps THEN <<s>>
    ELSE LET i == CHOOSE j \in DOMAIN s :
                      /\ s[j] \in seps
                      /\ \A k \in 1..(j - 1) : s[k] \notin seps
         IN <<SubSeq(s, 1, i - 1)>> \o split_on(SubSeq(s, i + 1, Len(s)), seps)

\* (faulty variant: the newline forgotten in the pattern)
re_split_comma_only(s) == split_on(s, {","})

re_split(s) == split_on(s, Separators)

\* filter(len, fragments): the fragments of non-zero length.
filter_len(frags) == SelectSeq(frags, LAMBDA f : Len(f) > 0)

\* `item in items` on a list.
InList(item, items) == \E i \in DOMAIN items : items[i] = item

\* `' ' in item`: the test the code makes for "white characters".
has_white(item) == \E i \in DOMAIN item : item[i] = " "

(***************************************************************************)
(* _validate_multivalue_data (forms.py 143-164).                           *)
(***************************************************************************)
\* The ValidationErrors of the parser, by the taxonomy of the specification:
\* EmptyInput is error_msg, DuplicateToken is "There are duplicate serial
\* numbers in field.", InvalidCharacter is "Serial number can't contain
\* white characters."
EmptyInput == "EmptyInput"
DuplicateToken == "DuplicateToken"
InvalidCharacter == "InvalidCharacter"

NotRun == [ok |-> FALSE, items |-> <<>>, error |-> "NotRun"]
Return(items) == [ok |-> TRUE, items |-> items, error |-> "none"]
Raise(e) == [ok |-> FALSE, items |-> <<>>, error |-> e]

\* (faulty variant: items.insert(0, item))
prepend_item(items, item) == <<item>> \o items

\* items.append(item)
append_item(items, item) == Append(items, item)

\* (faulty variant: the loop without its duplicate test)
RECURSIVE multivalue_loop_nodup(_, _)
multivalue_loop_nodup(frags, items) ==
    IF frags = <<>>
    THEN IF items = <<>> THEN Raise(EmptyInput) ELSE Return(items)
    ELSE LET item == strip(Head(frags)) IN
         IF has_white(item) THEN Raise(InvalidCharacter)
         ELSE IF item # <<>>
              THEN multivalue_loop_nodup(Tail(frags), append_item(items, item))
              ELSE multivalue_loop_nodup(Tail(frags), items)

\* (faulty variant: the loop without the final `if not items`)
RECURSIVE multivalue_loop_noempty(_, _)
multivalue_loop_noempty(frags, items) ==
    IF frags = <<>>
    THEN Return(items)
    ELSE LET item == strip(Head(frags)) IN
         IF InList(item, items) THEN Raise(DuplicateToken)
         ELSE IF has_white(item) THEN Raise(InvalidCharacter)
         ELSE IF item # <<>>
              THEN multivalue_loop_noempty(Tail(frags), append_item(items, item))
              ELSE multivalue_loop_noempty(Tail(frags), items)

\* The for loop over the filtered fragments and the check that follows it.
RECURSIVE multivalue_loop(_, _)
multivalue_loop(frags, items) ==
    IF frags = <<>>
    THEN IF items = <<>> THEN Raise(EmptyInput) ELSE Return(items)
    ELSE LET item == strip(Head(frags)) IN
         IF InList(item, items) THEN Raise(DuplicateToken)
         ELSE IF has_white(item) THEN Raise(InvalidCharacter)
         ELSE IF item # <<>>
              THEN multivalue_loop(Tail(frags), append_item(items, item))
              ELSE multivalue_loop(Tail(frags), items)

_validate_multivalue_data(data) ==
    LET d == strip(data) IN
    IF d = <<>> THEN Raise(EmptyInput)
    ELSE multivalue_loop(filter_len(re_split(d)), <<>>)

(***************************************************************************)
(* The asset store (ralph.assets.models.Asset, used through the ORM).      *)
(***************************************************************************)
\* A NULL column.  No string is equal to it.
None == <<"<None>">>

\* The asset types a form offers by mode (forms.py 227-232).
AssetTypeOf(mode) == IF mode = "dc" THEN "data_center" ELSE "back_office"

Mode(r) == IF r = "r1" THEN "dc" ELSE "back_office"

\* The asset the tests create in setUp, with the shortest tokens standing
\* for 'sn-123' and 'bc-1234'.
Fixture ==
    [id |-> 1, sn |-> <<"a">>, barcode |-> <<"b">>,
     type |-> "data_center", created_by |-> "setUp"]

\* Asset.objects.filter(sn__in=serial_numbers), in order of id.
filter_sn_in(st, serial_numbers) ==
    SelectSeq(st, LAMBDA a : InList(a.sn, serial_numbers))

\* Asset.objects.filter(barcode__in=barcodes), in order of id.
filter_barcode_in(st, barcodes) ==
    SelectSeq(st, LAMBDA a : InList(a.barcode, barcodes))

\* The not_unique list built by the loop over the query's rows.
sn_triples(assets) ==
    [i \in DOMAIN assets |-> <<assets[i].sn, assets[i].id, assets[i].type>>]

barcode_triples(assets) ==
    [i \in DOMAIN assets |-> <<assets[i].barcode, assets[i].id, assets[i].type>>]

\* (faulty variant: a check that never finds a row)
always_unique(tokens, st) == [is_unique |-> TRUE, not_unique |-> <<>>]

_check_serial_numbers_uniqueness(serial_numbers, st) ==
    LET assets == filter_sn_in(st, serial_numbers) IN
    IF assets = <<>> THEN [is_unique |-> TRUE, not_unique |-> <<>>]
    ELSE [is_unique |-> FALSE, not_unique |-> sn_triples(assets)]

\* (faulty variant: the barcode check querying the sn column)
barcodes_checked_on_sn(barcodes, st) ==
    LET assets == filter_sn_in(st, barcodes) IN
    IF assets = <<>> THEN [is_unique |-> TRUE, not_unique |-> <<>>]
    ELSE [is_unique |-> FALSE, not_unique |-> barcode_triples(assets)]

_check_barcodes_uniqueness(barcodes, st) ==
    LET assets == filter_barcode_in(st, barcodes) IN
    IF assets = <<>> THEN [is_unique |-> TRUE, not_unique |-> <<>>]
    ELSE [is_unique |-> FALSE, not_unique |-> barcode_triples(assets)]

(***************************************************************************)
(* Field and form validation (forms.py 187-194, 235-301).                  *)
(***************************************************************************)
\* Further errors a field can carry: "This field is required." of a
\* required CharField, "Following ... already exists in DB: ..." and
\* "Barcode list could be empty or must have the same number of items as a
\* SN list."
Required == "Required"
UniquenessConflict == "UniquenessConflict"
LengthMismatch == "LengthMismatch"

NoError == [kind |-> "none", values |-> <<>>]
FieldError(kind, values) == [kind |-> kind, values |-> values]

\* The calls a field's validation makes on the parser and on the store.
ParserCall == "_validate_multivalue_data"
SnQuery == "Asset.objects.filter(sn__in)"
BarcodeQuery == "Asset.objects.filter(barcode__in)"

\* The outcome of one field: its cleaned value or its error, and the calls
\* made on the way.
FieldOk(value) ==
    [ok |-> TRUE, value |-> value, error |-> NoError, calls |-> <<>>]
FieldFails(kind, values) ==
    [ok |-> FALSE, value |-> <<>>, error |-> FieldError(kind, values),
     calls |-> <<>>]

\* An outcome reached after making a call with an argument.
After(call, argument, outcome) ==
    [outcome EXCEPT !.calls = <<[call |-> call, with |-> argument]>> \o @]

\* item[0] for item in not_unique: the values the message lists.
FirstOfEach(triples) == [i \in DOMAIN triples |-> triples[i][1]]

\* _sn_additional_validation raises on a conflict and returns otherwise.
_sn_additional_validation(serial_numbers, st) ==
    LET u == _check_serial_numbers_uniqueness(serial_numbers, st) IN
    After(SnQuery, serial_numbers,
          IF ~u.is_unique
          THEN FieldFails(UniquenessConflict, FirstOfEach(u.not_unique))
          ELSE FieldOk(serial_numbers))

\* (faulty variant: clean_sn without _sn_additional_validation)
clean_sn_unchecked(value, st) ==
    LET data == _validate_multivalue_data(value) IN
    After(ParserCall, value,
          IF ~data.ok THEN FieldFails(data.error, <<>>) ELSE FieldOk(data.items))

\* (faulty variant: clean_sn querying the store whatever the parser did)
clean_sn_query_always(value, st) ==
    LET data == _validate_multivalue_data(value) IN
    After(ParserCall, value,
          After(SnQuery, data.items,
                IF ~data.ok THEN FieldFails(data.error, <<>>)
                ELSE [_sn_additional_validation(data.items, st) EXCEPT !.calls = <<>>]))

\* AddPartForm.clean_sn and AddDeviceForm.clean_sn (the same body).
clean_sn(value, st) ==
    LET data == _validate_multivalue_data(value) IN
    After(ParserCall, value,
          IF ~data.ok THEN FieldFails(data.error, <<>>)
          ELSE _sn_additional_validation(data.items, st))

\* (faulty variant: an sn field that is not required)
sn_field_optional(value, st) == clean_sn(value, st)

\* The sn field, a CharField with required=True: an empty value is rejected
\* by the field and clean_sn is not called.
sn_field(value, st) ==
    IF value = <<>> THEN FieldFails(Required, <<>>) ELSE clean_sn(value, st)

\* (faulty variant: a loop without the duplicate test)
RECURSIVE barcode_loop_nodup(_, _)
barcode_loop_nodup(frags, barcodes) ==
    IF frags = <<>>
    THEN IF barcodes = <<>> THEN Raise(LengthMismatch) ELSE Return(barcodes)
    ELSE LET barcode == strip(Head(frags)) IN
         IF has_white(barcode) THEN Raise(InvalidCharacter)
         ELSE IF barcode # <<>>
              THEN barcode_loop_nodup(Tail(frags), Append(barcodes, barcode))
              ELSE barcode_loop_nodup(Tail(frags), barcodes)

\* (faulty variant: a loop that puts each barcode in front of the list)
RECURSIVE barcode_loop_reversed(_, _)
barcode_loop_reversed(frags, barcodes) ==
    IF frags = <<>>
    THEN IF barcodes = <<>> THEN Raise(LengthMismatch) ELSE Return(barcodes)
    ELSE LET barcode == strip(Head(frags)) IN
         IF InList(barcode, barcodes) THEN Raise(DuplicateToken)
         ELSE IF has_white(barcode) THEN Raise(InvalidCharacter)
         ELSE IF barcode # <<>>
              THEN barcode_loop_reversed(Tail(frags), <<barcode>> \o barcodes)
              ELSE barcode_loop_reversed(Tail(frags), barcodes)

\* The loop of clean_barcode and the check that follows it.
RECURSIVE barcode_loop(_, _)
barcode_loop(frags, barcodes) ==
    IF frags = <<>>
    THEN IF barcodes = <<>> THEN Raise(LengthMismatch) ELSE Return(barcodes)
    ELSE LET barcode == strip(Head(frags)) IN
         IF InList(barcode, barcodes) THEN Raise(DuplicateToken)
         ELSE IF has_white(barcode) THEN Raise(InvalidCharacter)
         ELSE IF barcode # <<>>
              THEN barcode_loop(Tail(frags), Append(barcodes, barcode))
              ELSE barcode_loop(Tail(frags), barcodes)

\* AddDeviceForm.clean_barcode; the field is a CharField with required=False,
\* so every value reaches it.
clean_barcode(value, st) ==
    LET data == strip(value) IN
    IF data = <<>> THEN FieldOk(<<>>)
    ELSE LET parsed == barcode_loop(filter_len(re_split(data)), <<>>) IN
         IF ~parsed.ok THEN FieldFails(parsed.error, <<>>)
         ELSE LET u == _check_barcodes_uniqueness(parsed.items, st) IN
              After(BarcodeQuery, parsed.items,
                    IF ~u.is_unique
                    THEN FieldFails(UniquenessConflict, FirstOfEach(u.not_unique))
                    ELSE FieldOk(parsed.items))

\* The fault of reading a key that cleaned_data does not hold.
KeyError == << <<"<KeyError>">> >>

\* (faulty variant: cleaned_data[key], which has no default)
cleaned_index(f, default) == IF f.ok THEN f.value ELSE KeyError

\* cleaned_data.get(key, default): a field that failed is absent from
\* cleaned_data.
cleaned_get(f, default) == IF f.ok THEN f.value ELSE default

\* The other required fields of the add and edit forms: model and warehouse
\* are declared with required=True, support_period and support_type are
\* required by the Asset model.
DeclaredRequired == {"model", "warehouse"}
ModelRequired == {"support_period", "support_type"}
OtherRequired == DeclaredRequired \cup ModelRequired

\* (faulty variant: clean without the comparison of the two lengths)
AddDeviceForm_clean_unpaired(s, b) ==
    [cleaned_data |-> [sn |-> cleaned_get(s, <<>>), barcode |-> cleaned_get(b, <<>>)],
     errors |-> [sn |-> s.error, barcode |-> b.error, other |-> {}],
     fault |-> FALSE,
     calls |-> s.calls \o b.calls]

\* AddDeviceForm.clean, given the outcome s of the sn field and b of the
\* barcode field, the other fields being filled in.
AddDeviceForm_clean(s, b) ==
    LET serial_numbers == cleaned_get(s, <<>>)
        barcodes == cleaned_get(b, <<>>)
        fault == serial_numbers = KeyError \/ barcodes = KeyError
        mismatch == barcodes # <<>> /\ Len(serial_numbers) # Len(barcodes)
    IN [cleaned_data |-> [sn |-> serial_numbers, barcode |-> barcodes],
        errors |-> [sn |-> s.error,
                    barcode |-> IF mismatch
                                THEN FieldError(LengthMismatch, <<>>)
                                ELSE b.error,
                    other |-> {}],
        fault |-> fault,
        calls |-> s.calls \o b.calls]

\* The required fields other than sn that the submission leaves empty; each
\* carries "This field is required.".
missing_fields(data) == OtherRequired \ data.filled

\* AddDeviceForm's validation: the fields, sn and barcode among them, then
\* clean.
AddDeviceForm_full_clean(data, st) ==
    LET result == AddDeviceForm_clean(sn_field(data.sn, st),
                                      clean_barcode(data.barcode, st))
    IN [result EXCEPT !.errors.other = missing_fields(data)]

\* AddPartForm has the sn field and no barcode field.
AddPartForm_full_clean(data, st) ==
    LET s == sn_field(data.sn, st) IN
    [cleaned_data |-> [sn |-> cleaned_get(s, <<>>), barcode |-> <<>>],
     errors |-> [sn |-> s.error, barcode |-> NoError,
                 other |-> missing_fields(data)],
     fault |-> FALSE,
     calls |-> s.calls]

\* form.is_valid()
is_valid(errs) ==
    errs.sn = NoError /\ errs.barcode = NoError /\ errs.other = {}

(***************************************************************************)
(* Requests: a view validates its form and, if valid, creates one asset    *)
(* per serial number, one save at a time; the store refuses a row whose sn *)
(* or barcode another row holds.                                           *)
(***************************************************************************)
\* The tokens submitted and the field values made of them.
Tokens == {<<"a">>, <<"b">>}

Batches(n) == UNION {[1..k -> Tokens] : k \in 0..n}

RECURSIVE join_comma(_)
join_comma(items) ==
    IF items = <<>> THEN <<>>
    ELSE IF Len(items) = 1 THEN items[1]
    ELSE items[1] \o <<",">> \o join_comma(Tail(items))

FormInputs == {join_comma(b) : b \in Batches(MaxBatch)}

NoCleanedData == [sn |-> <<>>, barcode |-> <<>>]
NoErrors == [sn |-> NoError, barcode |-> NoError, other |-> {}]

\* The variables of the other specifications, at rest.
NoPost == [sn |-> <<>>, barcode |-> <<>>, filled |-> {}]
NoCtor == [pc |-> "none"]
NoFormset == [pc |-> "none"]

NoSubmission == post = NoPost /\ calls = <<>>

NoRequests ==
    /\ pc = [r \in Requests |-> "idle"]
    /\ form = [r \in Requests |-> "none"]
    /\ cleaned_data = [r \in Requests |-> NoCleanedData]
    /\ errors = [r \in Requests |-> NoErrors]
    /\ idx = [r \in Requests |-> 0]

Init ==
    /\ arg = <<>>
    /\ ret = NotRun
    /\ store \in {<<>>, <<Fixture>>}
    /\ NoRequests
    /\ NoSubmission
    /\ ctor = NoCtor
    /\ formset = NoFormset

\* The outcome of is_valid() recorded on the request.
Validated(r, name, result) ==
    /\ form' = [form EXCEPT ![r] = name]
    /\ cleaned_data' = [cleaned_data EXCEPT ![r] = result.cleaned_data]
    /\ errors' = [errors EXCEPT ![r] = result.errors]
    /\ pc' = [pc EXCEPT ![r] = IF result.fault THEN "fault"
                               ELSE IF is_valid(result.errors) THEN "persist"
                               ELSE "invalid"]
    /\ idx' = [idx EXCEPT ![r] = 1]

\* (faulty variant: a validation that saves the first asset itself)
AddDeviceValidate_saving(r) ==
    /\ pc[r] = "idle"
    /\ \E sn \in FormInputs, barcode \in FormInputs :
          LET result == AddDeviceForm_full_clean(
                            [sn |-> sn, barcode |-> barcode, filled |-> OtherRequired],
                            store) IN
          /\ Validated(r, "AddDeviceForm", result)
          /\ store' = IF is_valid(result.errors) /\ store = <<>>
                      THEN <<[id |-> 1, sn |-> result.cleaned_data.sn[1],
                              barcode |-> None, type |-> AssetTypeOf(Mode(r)),
                              created_by |-> r]>>
                      ELSE store
    /\ UNCHANGED other_vars

\* POST to add/device: AddDeviceForm(request.POST).is_valid().  The field
\* outcomes of all submitted values are collected first, so that equal
\* outcomes give one successor.
AddDeviceValidate(r) ==
    /\ pc[r] = "idle"
    /\ \E s \in {sn_field(sn, store) : sn \in FormInputs},
          b \in {clean_barcode(barcode, store) : barcode \in FormInputs} :
          Validated(r, "AddDeviceForm", AddDeviceForm_clean(s, b))
    /\ UNCHANGED <<store, other_vars>>

\* POST to add/part: AddPartForm(request.POST).is_valid()
AddPartValidate(r) ==
    /\ pc[r] = "idle"
    /\ \E sn \in FormInputs :
          Validated(r, "AddPartForm",
                    AddPartForm_full_clean([sn |-> sn, filled |-> OtherRequired], store))
    /\ UNCHANGED <<store, other_vars>>

\* The unique constraints of the sn and barcode columns; NULL barcodes do
\* not collide.
violates_unique(st, sn, barcode) ==
    \E i \in DOMAIN st :
        \/ st[i].sn = sn
        \/ barcode # None /\ st[i].barcode = barcode

\* One turn of the view's loop: the asset for the serial number at idx, with
\* the barcode at the same position when barcodes were given.  The save
\* either inserts the row or fails on a unique constraint.
CreateAsset(r) ==
    /\ pc[r] = "persist"
    /\ LET sn == cleaned_data[r].sn[idx[r]]
           barcode == IF cleaned_data[r].barcode # <<>>
                      THEN cleaned_data[r].barcode[idx[r]]
                      ELSE None
       IN IF violates_unique(store, sn, barcode)
          THEN /\ pc' = [pc EXCEPT ![r] = "integrity_error"]
               /\ UNCHANGED <<store, idx>>
          ELSE /\ store' = Append(store,
                               [id |-> Len(store) + 1, sn |-> sn, barcode |-> barcode,
                                type |-> AssetTypeOf(Mode(r)), created_by |-> r])
               /\ idx' = [idx EXCEPT ![r] = idx[r] + 1]
               /\ pc' = [pc EXCEPT ![r] =
                            IF idx[r] = Len(cleaned_data[r].sn) THEN "done" ELSE "persist"]
    /\ UNCHANGED <<form, cleaned_data, errors, other_vars>>

\* The response is sent (a redirect, the form with its errors, or a server
\* error) and the worker takes the next request.
Respond(r) ==
    /\ pc[r] \in {"done", "invalid", "integrity_error", "fault"}
    /\ pc' = [pc EXCEPT ![r] = "idle"]
    /\ form' = [form EXCEPT ![r] = "none"]
    /\ cleaned_data' = [cleaned_data EXCEPT ![r] = NoCleanedData]
    /\ errors' = [errors EXCEPT ![r] = NoErrors]
    /\ idx' = [idx EXCEPT ![r] = 0]
    /\ UNCHANGED <<store, other_vars>>

\* Requests served concurrently: any interleaving of their steps.
Next ==
    \E r \in Requests :
        \/ AddDeviceValidate(r)
        \/ AddPartValidate(r)
        \/ CreateAsset(r)
        \/ Respond(r)

Spec == Init /\ [][Next]_vars

\* Requests served one at a time: a request is taken up only when no other
\* request is between its validation and its response.
NoOtherInFlight(r) == \A q \in Requests \ {r} : pc[q] = "idle"

NextSeq ==
    \E r \in Requests :
        \/ NoOtherInFlight(r) /\ AddDeviceValidate(r)
        \/ NoOtherInFlight(r) /\ AddPartValidate(r)
        \/ CreateAsset(r)
        \/ Respond(r)

SpecSeq == Init /\ [][NextSeq]_vars

(***************************************************************************)
(* The parser applied to every bounded input.                              *)
(***************************************************************************)
InitParse ==
    /\ arg \in ParserInputs
    /\ ret = NotRun
    /\ store = <<>>
    /\ NoRequests
    /\ NoSubmission
    /\ ctor = NoCtor
    /\ formset = NoFormset

ParseCall ==
    /\ ret = NotRun
    /\ ret' = _validate_multivalue_data(arg)
    /\ UNCHANGED <<arg, store, request_vars, submission_vars, ctor, formset>>

NextParse == ParseCall

SpecParse == InitParse /\ [][NextParse]_vars

(***************************************************************************)
(* One submission of the add-device or edit-device form, followed from its *)
(* raw POST data through validation to the store.                          *)
(***************************************************************************)
\* Longest raw sn or barcode string submitted.
MaxFormLen == 3

\* Two token characters, a separator and the space.
FormAlphabet == {"a", "b", ",", " "}

RawInputs == UNION {[1..k -> FormAlphabet] : k \in 0..MaxFormLen}

\* Field values of a few shapes: lists of tokens and blank values.
ShapedInputs == FormInputs \cup {<<" ">>, <<",">>, <<",", " ">>}

\* The submissions: every raw string in one of the two fields with every
\* shaped value in the other, the other fields filled in; and short ones
\* with any of the other required fields empty.
Posts ==
    {[sn |-> s, barcode |-> b, filled |-> OtherRequired] :
        s \in RawInputs, b \in ShapedInputs}
    \cup {[sn |-> s, barcode |-> b, filled |-> OtherRequired] :
             s \in ShapedInputs, b \in RawInputs}
    \cup {[sn |-> s, barcode |-> b, filled |-> f] :
             s, b \in {<<>>, <<"a">>}, f \in SUBSET OtherRequired}

\* The request that carries the submission.
Client == "r1"

InitForm ==
    /\ arg = <<>>
    /\ ret = NotRun
    /\ store \in {<<>>, <<Fixture>>}
    /\ NoRequests
    /\ post \in Posts
    /\ calls = <<>>
    /\ ctor = NoCtor
    /\ formset = NoFormset

\* POST to add/device with the data of post.
SubmitAddDevice ==
    /\ pc[Client] = "idle"
    /\ LET result == AddDeviceForm_full_clean(post, store) IN
          /\ Validated(Client, "AddDeviceForm", result)
          /\ calls' = result.calls
    /\ UNCHANGED <<store, parser_vars, post, ctor, formset>>

\* POST to add/part with the data of post; the part form has no barcode
\* field and ignores that value.
SubmitAddPart ==
    /\ pc[Client] = "idle"
    /\ LET result == AddPartForm_full_clean(post, store) IN
          /\ Validated(Client, "AddPartForm", result)
          /\ calls' = result.calls
    /\ UNCHANGED <<store, parser_vars, post, ctor, formset>>

\* "Asset with this Sn already exists." / "... Barcode already exists.":
\* the unique validation of a model form, which leaves the edited row out.
AlreadyExists == "AlreadyExists"

held_by_another(st, id, column, value) ==
    \E i \in DOMAIN st : st[i].id # id /\ st[i][column] = value

\* EditDeviceForm (BaseAssetForm unchanged) bound to the asset with this
\* id: sn and barcode are the model's fields, each holding one value; sn
\* is required.
EditDeviceForm_full_clean(data, st, id) ==
    LET sn_error ==
            IF data.sn = <<>> THEN FieldError(Required, <<>>)
            ELSE IF held_by_another(st, id, "sn", data.sn)
            THEN FieldError(AlreadyExists, <<data.sn>>)
            ELSE NoError
        barcode_error ==
            IF data.barcode # <<>> /\ held_by_another(st, id, "barcode", data.barcode)
            THEN FieldError(AlreadyExists, <<data.barcode>>)
            ELSE NoError
    IN [cleaned_data |->
            [sn |-> IF sn_error = NoError THEN <<data.sn>> ELSE <<>>,
             barcode |-> IF barcode_error = NoError /\ data.barcode # <<>>
                         THEN <<data.barcode>> ELSE <<>>],
        errors |-> [sn |-> sn_error, barcode |-> barcode_error,
                    other |-> missing_fields(data)],
        fault |-> FALSE,
        calls |-> <<>>]

\* POST to edit/device/1/ with the data of post.
SubmitEditDevice ==
    /\ pc[Client] = "idle"
    /\ store # <<>>
    /\ LET result == EditDeviceForm_full_clean(post, store, 1) IN
          /\ form' = [form EXCEPT ![Client] = "EditDeviceForm"]
          /\ cleaned_data' = [cleaned_data EXCEPT ![Client] = result.cleaned_data]
          /\ errors' = [errors EXCEPT ![Client] = result.errors]
          /\ pc' = [pc EXCEPT ![Client] =
                        IF is_valid(result.errors) THEN "update" ELSE "invalid"]
          /\ calls' = result.calls
    /\ UNCHANGED <<store, idx, parser_vars, post, ctor, formset>>

\* The edit view saves the asset with the cleaned values.
UpdateAsset ==
    /\ pc[Client] = "update"
    /\ store' = [store EXCEPT ![1] =
                    [@ EXCEPT !.sn = cleaned_data[Client].sn[1],
                              !.barcode = IF cleaned_data[Client].barcode = <<>>
                                          THEN None
                                          ELSE cleaned_data[Client].barcode[1]]]
    /\ pc' = [pc EXCEPT ![Client] = "done"]
    /\ UNCHANGED <<form, cleaned_data, errors, idx, other_vars>>

NextForm ==
    \/ SubmitAddDevice
    \/ SubmitAddPart
    \/ SubmitEditDevice
    \/ CreateAsset(Client)
    \/ UpdateAsset

SpecForm == InitForm /\ [][NextForm]_vars

(***************************************************************************)
(* Form construction: what __init__ does with the mode keyword argument    *)
(* (forms.py 56-66, 115-140, 222-232, 357-367), one statement group at a   *)
(* time.                                                                   *)
(***************************************************************************)
\* The mode values passed by callers, as Python strings; None and '' are
\* the falsy ones.
ModeDc == <<"d", "c">>
ModeBackOffice == <<"b", "a", "c", "k", "_", "o", "f", "f", "i", "c", "e">>
ModeBo == <<"b", "o">>
ModeValues == {None, <<>>, ModeDc, ModeBackOffice, ModeBo}

\* if value: ...
Truthy(value) == value # None /\ value # <<>>

\* kwargs.get(key) and del kwargs[key], a dict being a function on its keys.
dict_get(d, key) == IF key \in DOMAIN d THEN d[key] ELSE None
dict_del(d, key) == [k \in DOMAIN d \ {key} |-> d[k]]

\* The form classes whose __init__ reads mode.
AssetForms == {"BaseAssetForm", "BaseAddAssetForm"}
FormClasses == AssetForms \cup {"BasePartForm", "SearchAssetForm"}

ModeNotSetException == "ModeNotSetException"
TypeError == "TypeError"

\* AssetType and its two groups of choices.
AssetTypeDC == {"data_center"}
AssetTypeBO == {"back_office", "administration"}
AssetTypes == AssetTypeDC \cup AssetTypeBO

\* A field of a form: its choices, its ajax channel, its initial value.
PlainField == [choices |-> {}, channel |-> "", initial |-> None]
NoFields == [name \in {} |-> PlainField]

\* The fields a class has once its base __init__ has run.
base_fields(cls) ==
    IF cls \in AssetForms
    THEN [name \in {"type", "model", "warehouse"} |->
             IF name = "type" THEN [PlainField EXCEPT !.choices = AssetTypes]
             ELSE PlainField]
    ELSE IF cls = "BasePartForm"
    THEN [name \in {"barcode_salvaged"} |-> PlainField]
    ELSE [name \in {"model", "sn"} |-> PlainField]

\* (faulty variant: the mode read as the asset forms read it)
read_mode_without_raise(cls, kwargs) ==
    LET mode == dict_get(kwargs, "mode") IN
    [mode |-> mode,
     kwargs |-> IF Truthy(mode) THEN dict_del(kwargs, "mode") ELSE kwargs,
     exception |-> "none"]

\* mode = kwargs.get('mode'); if mode: del kwargs['mode'], and in
\* BasePartForm: else: raise ModeNotSetException
read_mode(cls, kwargs) ==
    LET mode == dict_get(kwargs, "mode") IN
    IF Truthy(mode)
    THEN [mode |-> mode, kwargs |-> dict_del(kwargs, "mode"), exception |-> "none"]
    ELSE IF cls = "BasePartForm"
    THEN [mode |-> mode, kwargs |-> kwargs, exception |-> ModeNotSetException]
    ELSE [mode |-> mode, kwargs |-> kwargs, exception |-> "none"]

\* (faulty variant: the data-center channel whatever the mode)
channel_dc_always(mode) == "asset_dcdevice"

\* channel = 'asset_dcdevice' if mode == 'dc' else 'asset_bodevice'
channel_for(mode) ==
    IF mode = ModeDc THEN "asset_dcdevice" ELSE "asset_bodevice"

\* The choices of the type field after the if / elif on mode.
type_choices(mode, choices) ==
    IF mode = ModeDc THEN AssetTypeDC
    ELSE IF mode = ModeBackOffice THEN AssetTypeBO
    ELSE choices

\* The fields after the statements that follow the base __init__.
set_fields(cls, mode, instance, fields) ==
    IF cls \in AssetForms
    THEN [fields EXCEPT !["type"].choices = type_choices(mode, @)]
    ELSE IF cls = "BasePartForm"
    THEN [name \in DOMAIN fields \cup {"device", "source_device"} |->
             IF name \in {"device", "source_device"}
             THEN [choices |-> {}, channel |-> channel_for(mode),
                   initial |-> instance[name]]
             ELSE fields[name]]
    ELSE [name \in DOMAIN fields \cup {"device"} |->
             IF name = "device"
             THEN [choices |-> {}, channel |-> channel_for(mode), initial |-> None]
             ELSE fields[name]]

\* The keyword arguments of a call: mode given or not.
KwargsSet == {[k \in {} |-> None]} \cup {[k \in {"mode"} |-> m] : m \in ModeValues}

\* The instance a model form is bound to: its device and source_device.
Instances == [device : {None, <<"7">>}, source_device : {None, <<"8">>}]

InitCtor ==
    /\ arg = <<>>
    /\ ret = NotRun
    /\ store = <<>>
    /\ NoRequests
    /\ NoSubmission
    /\ formset = NoFormset
    /\ \E cls \in FormClasses, kwargs \in KwargsSet, instance \in Instances :
          ctor = [pc |-> "called", cls |-> cls, args |-> kwargs, kwargs |-> kwargs,
                  instance |-> instance, mode |-> None, base_initialised |-> FALSE,
                  fields |-> NoFields, exception |-> "none"]

\* The statements before super().__init__.
ReadMode ==
    /\ ctor.pc = "called"
    /\ LET r == read_mode(ctor.cls, ctor.kwargs) IN
          ctor' = [ctor EXCEPT !.mode = r.mode,
                               !.kwargs = r.kwargs,
                               !.exception = r.exception,
                               !.pc = IF r.exception = "none" THEN "mode_read"
                                      ELSE "raised"]
    /\ UNCHANGED <<parser_vars, store, request_vars, submission_vars, formset>>

\* super().__init__(*args, **kwargs): the framework's __init__ has no mode
\* parameter, so a mode left in kwargs is a TypeError.
BaseInit ==
    /\ ctor.pc = "mode_read"
    /\ ctor' = IF "mode" \in DOMAIN ctor.kwargs
               THEN [ctor EXCEPT !.exception = TypeError, !.pc = "raised"]
               ELSE [ctor EXCEPT !.base_initialised = TRUE,
                                 !.fields = base_fields(ctor.cls),
                                 !.pc = "base_initialised"]
    /\ UNCHANGED <<parser_vars, store, request_vars, submission_vars, formset>>

\* The statements after super().__init__.
SetFields ==
    /\ ctor.pc = "base_initialised"
    /\ ctor' = [ctor EXCEPT !.fields = set_fields(ctor.cls, ctor.mode,
                                                  ctor.instance, ctor.fields),
                            !.pc = "done"]
    /\ UNCHANGED <<parser_vars, store, request_vars, submission_vars, formset>>

NextCtor == ReadMode \/ BaseInit \/ SetFields

SpecCtor == InitCtor /\ [][NextCtor]_vars

(***************************************************************************)
(* DeviceForm.clean_size applied to sizes around both ends of its range.   *)
(***************************************************************************)
\* How far from 0 and from the limit the enumerated sizes reach.
SizeMargin == 30

\* The second argument of range(0, 65535).
SizeLimit == 65535

\* The value of cleaned_data.get('size'): an integer, or None when the
\* field is missing or failed.
IntSize(n) == [is_int |-> TRUE, int |-> n]
NoSize == [is_int |-> FALSE, int |-> 0]

Sizes ==
    {IntSize(n) : n \in (0 - SizeMargin)..SizeMargin}
    \cup {IntSize(n) : n \in (SizeLimit - SizeMargin)..(SizeLimit + SizeMargin)}
    \cup {NoSize}

\* "Invalid size, use range 0 to 65535"
InvalidSize == "InvalidSize"

\* size in range(start, stop): the integers from start up to stop - 1.
in_range(size, start, stop) ==
    size.is_int /\ start <= size.int /\ size.int < stop

clean_size(size) ==
    IF ~in_range(size, 0, SizeLimit) THEN Raise(InvalidSize) ELSE Return(size)

InitSize ==
    /\ arg \in Sizes
    /\ ret = NotRun
    /\ store = <<>>
    /\ NoRequests
    /\ NoSubmission
    /\ ctor = NoCtor
    /\ formset = NoFormset

SizeCall ==
    /\ ret = NotRun
    /\ ret' = clean_size(arg)
    /\ UNCHANGED <<arg, store, request_vars, submission_vars, ctor, formset>>

NextSize == SizeCall

SpecSize == InitSize /\ [][NextSize]_vars

(***************************************************************************)
(* Bulk edit: a formset of BulkEditAssetForm rows, one per selected asset, *)
(* validated as a whole and then saved row by row.                         *)
(***************************************************************************)
\* The second asset the tests create in setUp ('sn-1232', 'bc-12342').
Fixture2 ==
    [id |-> 2, sn |-> <<"a", "a">>, barcode |-> <<"b", "b">>,
     type |-> "data_center", created_by |-> "setUp"]

BulkStore == <<Fixture, Fixture2>>

\* "Enter a valid date."
InvalidDate == "InvalidDate"

\* The values a row submits: an sn left empty, held by the first or the
\* second asset, or new; a barcode likewise, or absent from the POST
\* altogether; a date and something that is no date; a model chosen or not.
RowSns == {<<>>, <<"a">>, <<"a", "a">>, <<"b">>}
RowBarcodes == {<<>>, None, <<"b">>, <<"b", "b">>, <<"a">>}
RowDates == {"2011-02-03", "wrong_field_data"}
RowModels == {"", "model0"}

RowsFor(id) ==
    [id : {id}, sn : RowSns, barcode : RowBarcodes,
     invoice_date : RowDates, model : RowModels]

\* The formsets of the selections ?select=1, ?select=2 and ?select=1&select=2.
Formsets ==
    {<<r>> : r \in RowsFor(1) \cup RowsFor(2)}
    \cup {<<r1, r2>> : r1 \in RowsFor(1), r2 \in RowsFor(2)}

\* (faulty variant: a barcode field that keeps the empty string)
to_python_identity(value) == value

\* (faulty variant: every empty value becomes the empty string)
to_python_empty_string(value) == IF Truthy(value) THEN value ELSE <<>>

\* BarcodeField.to_python: value if value else None
BarcodeField_to_python(value) == IF Truthy(value) THEN value ELSE None

\* DateField on invoice_date.
is_date(value) == value = "2011-02-03"

\* One row's BulkEditAssetForm bound to its asset: the errors by field.
BulkEditAssetForm_errors(row, st) ==
    [sn |-> IF row.sn = <<>> THEN Required
            ELSE IF held_by_another(st, row.id, "sn", row.sn) THEN AlreadyExists
            ELSE "none",
     barcode |-> LET barcode == BarcodeField_to_python(row.barcode) IN
                 IF barcode # None /\ held_by_another(st, row.id, "barcode", barcode)
                 THEN AlreadyExists ELSE "none",
     invoice_date |-> IF is_date(row.invoice_date) THEN "none" ELSE InvalidDate,
     model |-> IF row.model = "" THEN Required ELSE "none"]

NoRowErrors ==
    [sn |-> "none", barcode |-> "none", invoice_date |-> "none", model |-> "none"]

\* The formset's own check of its rows against each other: two rows with
\* the same value of a unique field, None excepted.
rows_collide(rows, column) ==
    \E i, j \in DOMAIN rows :
        /\ i < j
        /\ LET vi == IF column = "barcode" THEN BarcodeField_to_python(rows[i].barcode)
                     ELSE rows[i][column]
               vj == IF column = "barcode" THEN BarcodeField_to_python(rows[j].barcode)
                     ELSE rows[j][column]
           IN vi # None /\ vi = vj

formset_is_valid(rows, st) ==
    /\ \A i \in DOMAIN rows : BulkEditAssetForm_errors(rows[i], st) = NoRowErrors
    /\ ~rows_collide(rows, "sn")
    /\ ~rows_collide(rows, "barcode")

InitBulk ==
    /\ arg = <<>>
    /\ ret = NotRun
    /\ store = BulkStore
    /\ NoRequests
    /\ NoSubmission
    /\ ctor = NoCtor
    /\ \E rows \in Formsets :
          formset = [pc |-> "submitted", rows |-> rows,
                     errors |-> [i \in DOMAIN rows |-> NoRowErrors], next |-> 0]

\* POST to bulkedit: formset.is_valid()
BulkValidate ==
    /\ formset.pc = "submitted"
    /\ formset' =
          [formset EXCEPT
              !.errors = [i \in DOMAIN formset.rows |->
                             BulkEditAssetForm_errors(formset.rows[i], store)],
              !.pc = IF formset_is_valid(formset.rows, store) THEN "saving"
                     ELSE "invalid",
              !.next = 1]
    /\ UNCHANGED <<parser_vars, store, request_vars, submission_vars, ctor>>

\* formset.save(): the next row is saved to its asset; after the last one
\* the view redirects.
BulkSave ==
    /\ formset.pc = "saving"
    /\ LET row == formset.rows[formset.next]
           barcode == BarcodeField_to_python(row.barcode)
       IN IF \/ held_by_another(store, row.id, "sn", row.sn)
             \/ barcode # None /\ held_by_another(store, row.id, "barcode", barcode)
          THEN /\ formset' = [formset EXCEPT !.pc = "integrity_error"]
               /\ UNCHANGED store
          ELSE /\ store' = [store EXCEPT ![row.id] =
                               [@ EXCEPT !.sn = row.sn, !.barcode = barcode]]
               /\ formset' = [formset EXCEPT
                                 !.next = @ + 1,
                                 !.pc = IF formset.next = Len(formset.rows)
                                        THEN "redirect" ELSE "saving"]
    /\ UNCHANGED <<parser_vars, request_vars, submission_vars, ctor>>

NextBulk == BulkValidate \/ BulkSave

SpecBulk == InitBulk /\ [][NextBulk]_vars

(***************************************************************************)
(* The menu: AssetMenu's submodules and the sidebar of each, the reports'  *)
(* sidebar built from the registry of reports.                             *)
(***************************************************************************)
MaxReports == 3

ModeAll == <<"a", "l", "l">>

\* The report classes that can be registered, by name and slug.
ReportClasses ==
    {[name |-> "Category - model", slug |-> "category-model"],
     [name |-> "Status - model", slug |-> "status-model"],
     [name |-> "Manufacturer", slug |-> "manufacturer"]}

\* ReportViewBase.reports: the registered reports, in registration order.
Registries == UNION {[1..n -> ReportClasses] : n \in 0..MaxReports}

\* MenuItem(**kwargs): the item of its keyword arguments.
MenuItem(kwargs) == kwargs

\* Menu.generate_menu_items: one MenuItem per dict of the list, in order.
generate_menu_items(data) == [i \in DOMAIN data |-> MenuItem(data[i])]

\* AssetMenu.get_submodules
get_submodules ==
    << MenuItem([fugue_icon |-> "fugue-building", view_name |-> "asset_search",
                 view_kwargs |-> [mode |-> ModeDc],
                 label |-> "Data center", name |-> "search_dc"]),
       MenuItem([fugue_icon |-> "fugue-printer", view_name |-> "asset_search",
                 view_kwargs |-> [mode |-> ModeBackOffice],
                 label |-> "BackOffice", name |-> "search_back_office"]),
       MenuItem([fugue_icon |-> "fugue-lifebuoy", view_name |-> "support_list",
                 label |-> "Supports", name |-> "supports"]),
       MenuItem([fugue_icon |-> "fugue-cheque", href |-> "reverse(licence_list)",
                 view_name |-> "licence_list",
                 label |-> "Licences", name |-> "licences"]),
       MenuItem([fugue_icon |-> "fugue-user-green-female", view_name |-> "user_list",
                 label |-> "User list", name |-> "users"]),
       MenuItem([fugue_icon |-> "fugue-table", view_name |-> "assets_reports",
                 label |-> "Reports", name |-> "assets_reports"]),
       MenuItem([fugue_icon |-> "fugue-cheque--plus", view_name |-> "xls_upload",
                 label |-> "XLS/CSV import", name |-> "assets_import"]) >>

\* The search, add-device and add-part entries of one mode's sidebar.
search_items(mode) ==
    << [label |-> "Search", view_name |-> "asset_search",
        view_kwargs |-> [mode |-> mode], fugue_icon |-> "fugue-magnifier"],
       [label |-> "Add device", view_name |-> "add_device",
        view_kwargs |-> [mode |-> mode], fugue_icon |-> "fugue-block--plus"],
       [label |-> "Add part", view_name |-> "add_part",
        view_kwargs |-> [mode |-> mode], fugue_icon |-> "fugue-block--plus"] >>

supports_items ==
    << [label |-> "Search", view_name |-> "support_list",
        fugue_icon |-> "fugue-magnifier"],
       [label |-> "Add support", view_name |-> "add_support",
        fugue_icon |-> "fugue-block--plus"] >>

licences_items ==
    << [label |-> "Search", view_name |-> "licence_list",
        fugue_icon |-> "fugue-magnifier"],
       [label |-> "Add licence", view_name |-> "add_licence",
        fugue_icon |-> "fugue-block--plus"] >>

\* (faulty variant: the reports taken from the last registered to the first)
report_items_reversed(reports) ==
    [i \in DOMAIN reports |->
        LET report == reports[Len(reports) + 1 - i] IN
        [label |-> report.name, view_name |-> "report_detail",
         view_kwargs |-> [mode |-> ModeAll, slug |-> report.slug],
         name |-> report.name, fugue_icon |-> "fugue-table"]]

\* [{...} for report in ReportViewBase.reports]
report_items(reports) ==
    [i \in DOMAIN reports |->
        LET report == reports[i] IN
        [label |-> report.name, view_name |-> "report_detail",
         view_kwargs |-> [mode |-> ModeAll, slug |-> report.slug],
         name |-> report.name, fugue_icon |-> "fugue-table"]]

\* AssetMenu.get_sidebar_items
get_sidebar_items(reports) ==
    [search_dc |-> generate_menu_items(search_items(ModeDc)),
     search_back_office |-> generate_menu_items(search_items(ModeBackOffice)),
     supports |-> generate_menu_items(supports_items),
     licences |-> generate_menu_items(licences_items),
     assets_reports |-> generate_menu_items(report_items(reports))]

\* Neither method called yet.
NoMenu == [called |-> {}, submodules |-> <<>>, sidebar |-> <<>>]

InitMenu ==
    /\ arg \in Registries
    /\ ret = NoMenu
    /\ store = <<>>
    /\ NoRequests
    /\ NoSubmission
    /\ ctor = NoCtor
    /\ formset = NoFormset

\* The page asks the menu for its submodules.
GetSubmodules ==
    /\ "get_submodules" \notin ret.called
    /\ ret' = [ret EXCEPT !.called = @ \cup {"get_submodules"},
                          !.submodules = get_submodules]
    /\ UNCHANGED <<arg, store, request_vars, submission_vars, ctor, formset>>

\* The page asks the menu for its sidebar items.
GetSidebarItems ==
    /\ "get_sidebar_items" \notin ret.called
    /\ ret' = [ret EXCEPT !.called = @ \cup {"get_sidebar_items"},
                          !.sidebar = get_sidebar_items(arg)]
    /\ UNCHANGED <<arg, store, request_vars, submission_vars, ctor, formset>>

NextMenu == GetSubmodules \/ GetSidebarItems

SpecMenu == InitMenu /\ [][NextMenu]_vars

(***************************************************************************)
(* Reference notions the claims about the parser are stated with.  They    *)
(* are computed from the raw input, not from the parser's own pipeline.    *)
(***************************************************************************)
Done == ret # NotRun

\* The fragments of the raw input between separators, each trimmed, the
\* empty ones dropped, in order of appearance.
RECURSIVE TrimAll(_)
TrimAll(frags) ==
    IF frags = <<>> THEN <<>>
    ELSE <<rstrip(lstrip(Head(frags)))>> \o TrimAll(Tail(frags))

TrimmedFragments(s) ==
    SelectSeq(TrimAll(split_on(s, Separators)), LAMBDA f : f # <<>>)

\* The input with the separator at position i replaced by the other one.
SwapSeparator(s, i) ==
    [s EXCEPT ![i] = IF s[i] = "," THEN "\n" ELSE ","]

\* Tokens joined with commas.
RECURSIVE JoinComma(_)
JoinComma(items) ==
    IF items = <<>> THEN <<>>
    ELSE IF Len(items) = 1 THEN items[1]
    ELSE items[1] \o <<",">> \o JoinComma(Tail(items))

\* Nothing but whitespace and separators.
AllBlank(s) == \A i \in DOMAIN s : s[i] \in Whitespace \cup Separators

\* The raw fragments that are not blank, joined again: the input with its
\* blank fragments removed.
WithoutBlankFragments(s) ==
    JoinComma(SelectSeq(split_on(s, Separators),
                        LAMBDA f : \E i \in DOMAIN f : f[i] \notin Whitespace))

ContainsWhitespace(t) == \E i \in DOMAIN t : t[i] \in Whitespace

\* Fragment i repeats an earlier fragment / is the first offending one.
IsDuplicateAt(F, i) == \E j \in 1..(i - 1) : F[j] = F[i]
IsOffendingAt(F, i) == IsDuplicateAt(F, i) \/ ContainsWhitespace(F[i])
IsFirstOffender(F, i) ==
    /\ i \in DOMAIN F
    /\ IsOffendingAt(F, i)
    /\ \A j \in 1..(i - 1) : ~IsOffendingAt(F, j)

(***************************************************************************)
(* Claims about _validate_multivalue_data, checked under SpecParse.        *)
(***************************************************************************)
\* C1: whenever the parser succeeds, no returned token contains a
\* whitespace character of any kind (space, tab, carriage return, ...).
\* The code tests only for the space, so a token with an embedded tab is
\* accepted: TLC finds this violated.
C1_NoWhitespaceInTokens ==
    ret.ok => \A i \in DOMAIN ret.items : ~ContainsWhitespace(ret.items[i])

\* C2: whenever the parser succeeds, the returned list is non-empty, every
\* token is a non-empty string with neither a comma nor a newline in it,
\* and the tokens are pairwise distinct.
C2_TokensWellFormed ==
    ret.ok =>
        /\ ret.items # <<>>
        /\ \A i \in DOMAIN ret.items :
              /\ ret.items[i] # <<>>
              /\ \A k \in DOMAIN ret.items[i] : ret.items[i][k] \notin {",", "\n"}
        /\ \A i, j \in DOMAIN ret.items : i # j => ret.items[i] # ret.items[j]

C2_Witness ==
    /\ ret.ok
    /\ Len(ret.items) >= 2
    /\ Len(arg) > Len(JoinComma(ret.items))

\* C3: an accepted input yields its trimmed non-empty fragments in order of
\* appearance, and replacing any one comma by a newline, or any one newline
\* by a comma, never changes the parser's result (value or error).
C3_OrderAndSeparators ==
    Done =>
        /\ ret.ok => ret.items = TrimmedFragments(arg)
        /\ \A i \in DOMAIN arg :
              arg[i] \in Separators =>
                  _validate_multivalue_data(SwapSeparator(arg, i)) = ret

C3_Witness ==
    /\ ret.ok
    /\ Len(ret.items) >= 2
    /\ "," \in Range(arg)
    /\ "\n" \in Range(arg)

\* C4: the parser fails with EmptyInput exactly on the inputs that hold no
\* non-blank fragment (empty, whitespace only, separators only, separators
\* around blank fragments), and blank fragments next to real tokens are
\* dropped without any effect on the result.
C4_EmptyInput ==
    Done =>
        /\ AllBlank(arg) <=> (~ret.ok /\ ret.error = EmptyInput)
        /\ _validate_multivalue_data(WithoutBlankFragments(arg)) = ret

C4_Witness ==
    /\ Done
    /\ ret.error = EmptyInput
    /\ Len(arg) >= 3
    /\ arg[1] = ","
    /\ arg[Len(arg)] = ","
    /\ " " \in Range(arg)

\* C5: the parser fails with DuplicateToken exactly when the first offending
\* fragment repeats an already accepted token, and with InvalidCharacter
\* exactly when the first offending fragment is no such repeat and contains
\* whitespace.  A fragment with an embedded tab is offending by the claim and
\* accepted by the code (see C1): TLC finds this violated.
C5_FirstOffenderDecides ==
    Done =>
        LET F == TrimmedFragments(arg) IN
        /\ (~ret.ok /\ ret.error = DuplicateToken)
              <=> \E i \in DOMAIN F : IsFirstOffender(F, i) /\ IsDuplicateAt(F, i)
        /\ (~ret.ok /\ ret.error = InvalidCharacter)
              <=> \E i \in DOMAIN F :
                      /\ IsFirstOffender(F, i)
                      /\ ~IsDuplicateAt(F, i)
                      /\ ContainsWhitespace(F[i])

\* C6: the tokens of an accepted input, joined with commas, are accepted
\* again and parse to the same list.
C6_RejoinReparse ==
    ret.ok => _validate_multivalue_data(JoinComma(ret.items)) = Return(ret.items)

C6_Witness ==
    /\ ret.ok
    /\ Len(ret.items) >= 2
    /\ JoinComma(ret.items) # arg

(***************************************************************************)
(* Claims about the uniqueness checks, validation and the store.           *)
(***************************************************************************)
\* The stored rows whose sn, or barcode, is one of the tokens.
SnMatches(st, tokens) == {i \in DOMAIN st : st[i].sn \in Range(tokens)}
BarcodeMatches(st, tokens) == {i \in DOMAIN st : st[i].barcode \in Range(tokens)}

\* A check's answer is the one the claim describes for the matching rows,
\* each reported once by its value in that field, its id and its type.
AnswersFor(answer, st, matches, field) ==
    /\ answer.is_unique <=> matches = {}
    /\ answer.is_unique => answer.not_unique = <<>>
    /\ ~answer.is_unique =>
          /\ Len(answer.not_unique) = Cardinality(matches)
          /\ Range(answer.not_unique) =
                {<<st[i][field], st[i].id, st[i].type>> : i \in matches}

\* C7: on every store and token list, each uniqueness check passes with an
\* empty conflict list iff no stored asset holds one of the tokens in that
\* field, and otherwise reports exactly one (value, id, type) triple per
\* stored asset holding one of the tokens in that same field.
C7_UniquenessCheck ==
    \A tokens \in Batches(MaxBatch) :
        /\ AnswersFor(_check_serial_numbers_uniqueness(tokens, store), store,
                      SnMatches(store, tokens), "sn")
        /\ AnswersFor(_check_barcodes_uniqueness(tokens, store), store,
                      BarcodeMatches(store, tokens), "barcode")

\* The store of the tests, and a request whose two serial numbers met one
\* conflict, on the stored one, while a stored barcode equal to the other
\* token was no conflict.
C7_Witness ==
    /\ store = <<Fixture>>
    /\ \E r \in Requests :
          /\ pc[r] = "invalid"
          /\ errors[r].sn = FieldError(UniquenessConflict, << <<"a">> >>)
          /\ _check_serial_numbers_uniqueness(<< <<"a">>, <<"b">> >>, store).not_unique
                = << << <<"a">>, 1, "data_center" >> >>

\* C8: a step that validates a form, whether it passes or fails, leaves the
\* asset store as it was.
C8_ValidationReadsOnly ==
    [][\A r \in Requests : (pc[r] = "idle" /\ pc'[r] # "idle") => store' = store]_vars

C8_Witness ==
    /\ store # <<>>
    /\ \E r, q \in Requests :
          /\ pc[r] = "persist" /\ form[r] = "AddDeviceForm"
          /\ cleaned_data[r].barcode # <<>>
          /\ pc[q] = "invalid"

\* The sn and barcode a request is creating an asset for.
CurrentSn(r) == cleaned_data[r].sn[idx[r]]
CurrentBarcode(r) ==
    IF cleaned_data[r].barcode # <<>> THEN cleaned_data[r].barcode[idx[r]] ELSE None

StoredSnDistinct ==
    \A i, j \in DOMAIN store : i # j => store[i].sn # store[j].sn

StoredBarcodesDistinct ==
    \A i, j \in DOMAIN store :
        i # j /\ store[i].barcode # None => store[i].barcode # store[j].barcode

\* C9: with concurrent requests the store never holds two assets with the
\* same serial number, and a request that meets the store's uniqueness
\* failure had passed validation without error and collides only with rows
\* that another request created: the collision of two requests surfaces at
\* the store, not in validation.
C9_RaceSurfacesAtStore ==
    /\ StoredSnDistinct
    /\ \A r \in Requests :
          pc[r] = "integrity_error" =>
              /\ is_valid(errors[r])
              /\ \A i \in DOMAIN store :
                    (\/ store[i].sn = CurrentSn(r)
                     \/ CurrentBarcode(r) # None /\ store[i].barcode = CurrentBarcode(r))
                        => store[i].created_by \in Requests \ {r}

\* Both requests passed validation with a common serial number; one
\* persisted it and the other one met the store's failure on it.
C9_Witness ==
    \E r, q \in Requests :
        /\ r # q
        /\ pc[q] = "done" /\ is_valid(errors[q])
        /\ pc[r] = "integrity_error" /\ is_valid(errors[r])
        /\ CurrentSn(r) \in Range(cleaned_data[q].sn)
        /\ \E i \in DOMAIN store :
              store[i].sn = CurrentSn(r) /\ store[i].created_by = q

\* C10: with requests served one at a time, a batch that passed validation
\* has pairwise distinct serial numbers and pairwise distinct barcodes, what
\* is left of it to create is disjoint from the store, stored serial numbers
\* and stored barcodes stay pairwise distinct, and no save meets the store's
\* uniqueness failure.
C10_SequentialBatchesUnique ==
    /\ StoredSnDistinct
    /\ StoredBarcodesDistinct
    /\ \A r \in Requests :
          /\ pc[r] # "integrity_error"
          /\ pc[r] = "persist" =>
                LET sns == cleaned_data[r].sn
                    bcs == cleaned_data[r].barcode
                IN /\ \A i, j \in DOMAIN sns : i # j => sns[i] # sns[j]
                   /\ \A i, j \in DOMAIN bcs : i # j => bcs[i] # bcs[j]
                   /\ \A k \in idx[r]..Len(sns) :
                         \A i \in DOMAIN store : store[i].sn # sns[k]
                   /\ \A k \in idx[r]..Len(bcs) :
                         \A i \in DOMAIN store : store[i].barcode # bcs[k]

\* Two requests, one after the other, each created an asset; the later one
\* was an add-device request with a barcode.
C10_Witness ==
    /\ Len(store) = 2
    /\ store[1].created_by \in Requests
    /\ store[2].created_by \in Requests \ {store[1].created_by}
    /\ store[2].barcode # None
    /\ pc[store[2].created_by] = "done"
    /\ form[store[2].created_by] = "AddDeviceForm"

(***************************************************************************)
(* Reference notions the claims about one submission are stated with,      *)
(* computed from the raw POST data and the rows of the store.              *)
(***************************************************************************)
\* The add-device form has been validated and nothing has been saved yet.
JustValidated ==
    /\ form[Client] = "AddDeviceForm"
    /\ \/ pc[Client] \in {"invalid", "fault"}
       \/ pc[Client] = "persist" /\ idx[Client] = 1

\* The rows the store held before the submission, and the rows it added.
OldAssets == SelectSeq(store, LAMBDA a : a.created_by # Client)
NewAssets == SelectSeq(store, LAMBDA a : a.created_by = Client)

\* The raw value lists at least one token, no token has a blank inside and
\* no token is listed twice.
WellFormedList(raw) ==
    LET F == TrimmedFragments(raw) IN
    /\ F # <<>>
    /\ \A i \in DOMAIN F : ~IsOffendingAt(F, i)

\* No old row holds one of the tokens in the column.
NewIn(column, F) ==
    \A i \in DOMAIN F : \A k \in DOMAIN OldAssets : OldAssets[k][column] # F[i]

\* The raw sn is a list of tokens new to the store; the raw barcode is left
\* empty or is a list of tokens new to the store.
SnAcceptable == WellFormedList(post.sn) /\ NewIn("sn", TrimmedFragments(post.sn))
BarcodeAcceptable ==
    \/ strip(post.barcode) = <<>>
    \/ WellFormedList(post.barcode) /\ NewIn("barcode", TrimmedFragments(post.barcode))

\* The two lists as clean reads them: a field that failed gives [].
SnList == IF SnAcceptable THEN TrimmedFragments(post.sn) ELSE <<>>
BarcodeList == IF BarcodeAcceptable THEN TrimmedFragments(post.barcode) ELSE <<>>

\* The errors each of the two fields can carry.
SnErrorKinds ==
    {Required, EmptyInput, DuplicateToken, InvalidCharacter, UniquenessConflict}
BarcodeErrorKinds ==
    {DuplicateToken, InvalidCharacter, UniquenessConflict, LengthMismatch}

EmptyPost == [sn |-> <<>>, barcode |-> <<>>, filled |-> {}]

(***************************************************************************)
(* Claims about the validation of one submission, checked under SpecForm.  *)
(***************************************************************************)
\* C11: in device creation, whenever the barcode list is non-empty and its
\* length differs from the length of the serial-number list, validation
\* fails with LengthMismatch on the barcode field; whenever the two
\* validated lists have equal length, no LengthMismatch is reported.
C11_LengthPairing ==
    JustValidated =>
        /\ (BarcodeList # <<>> /\ Len(SnList) # Len(BarcodeList)) =>
              /\ pc[Client] = "invalid"
              /\ errors[Client].barcode = FieldError(LengthMismatch, <<>>)
        /\ (SnAcceptable /\ BarcodeAcceptable /\ Len(SnList) = Len(BarcodeList)) =>
              errors[Client].barcode = NoError

C11_Witness ==
    /\ JustValidated
    /\ SnAcceptable /\ Len(SnList) = 2
    /\ BarcodeAcceptable /\ Len(BarcodeList) = 1
    /\ errors[Client].barcode.kind = LengthMismatch

\* C12: in device creation, every raw barcode input that yields an empty
\* barcode list (empty, whitespace only, or only separators and blank
\* fragments) leaves the barcode field without an error, whatever the
\* serial numbers.  clean_barcode raises when its loop collected nothing,
\* so a barcode of separators alone is rejected: TLC finds this violated.
C12_EmptyBarcodeListAccepted ==
    (JustValidated /\ AllBlank(post.barcode)) => errors[Client].barcode = NoError

\* C16: for every raw sn, every raw barcode and every store state,
\* add-device validation ends either valid, with the cleaned lists of
\* tokens, or invalid, with every error on the sn or the barcode field
\* and of a kind that field can carry; it never ends in a fault.
C16_ValidOrFieldErrors ==
    (JustValidated /\ post.filled = OtherRequired) =>
        \/ /\ pc[Client] = "persist"
           /\ errors[Client] = NoErrors
           /\ cleaned_data[Client].sn = TrimmedFragments(post.sn)
           /\ cleaned_data[Client].sn # <<>>
           /\ cleaned_data[Client].barcode = TrimmedFragments(post.barcode)
        \/ /\ pc[Client] = "invalid"
           /\ errors[Client].other = {}
           /\ \/ errors[Client].sn # NoError
              \/ errors[Client].barcode # NoError
           /\ errors[Client].sn.kind \in SnErrorKinds \cup {"none"}
           /\ errors[Client].barcode.kind \in BarcodeErrorKinds \cup {"none"}

C16_Witness ==
    /\ JustValidated
    /\ post.filled = OtherRequired
    /\ pc[Client] = "invalid"
    /\ errors[Client].sn.kind = DuplicateToken
    /\ errors[Client].barcode.kind = InvalidCharacter

C19_SubmissionReady ==
    /\ form[Client] = "AddDeviceForm"
    /\ post.filled = OtherRequired
    /\ SnAcceptable
    /\ BarcodeAcceptable
    /\ BarcodeList # <<>> => Len(BarcodeList) = Len(SnList)

C19_Persisted ==
    C19_SubmissionReady =>
        /\ pc[Client] \in {"persist", "done"}
        /\ store = OldAssets \o NewAssets
        /\ pc[Client] = "done" =>
              /\ Len(NewAssets) = Len(SnList)
              /\ \A i \in DOMAIN NewAssets :
                    /\ NewAssets[i].sn = SnList[i]
                    /\ NewAssets[i].barcode =
                          IF BarcodeList = <<>> THEN None ELSE BarcodeList[i]

C19_ExistingUnchanged ==
    form'[Client] = "AddDeviceForm" =>
        /\ Len(store') >= Len(store)
        /\ \A i \in DOMAIN store : store'[i] = store[i]

C19_ValidSubmissionPersisted ==
    /\ []C19_Persisted
    /\ [][C19_ExistingUnchanged]_vars

C19_Witness ==
    /\ C19_SubmissionReady
    /\ pc[Client] = "done"
    /\ OldAssets = <<Fixture>>
    /\ Len(NewAssets) = 1
    /\ NewAssets[1].barcode # None

\* The positions in the log of the calls of one kind.
CallsOf(name) == {i \in DOMAIN calls : calls[i].call = name}

\* C24: in clean_sn and clean_barcode the store is queried only after
\* parsing has succeeded: when parsing fails no uniqueness lookup is made,
\* and a lookup is made with the complete list of parsed tokens, after
\* the parser's call, at most once per field in one validation.
C24_LookupAfterParsing ==
    (form[Client] \in {"AddDeviceForm", "AddPartForm"} /\ pc[Client] # "idle") =>
        /\ Cardinality(CallsOf(SnQuery)) <= 1
        /\ Cardinality(CallsOf(BarcodeQuery)) <= 1
        /\ ~WellFormedList(post.sn) => CallsOf(SnQuery) = {}
        /\ ~WellFormedList(post.barcode) => CallsOf(BarcodeQuery) = {}
        /\ form[Client] = "AddPartForm" => CallsOf(BarcodeQuery) = {}
        /\ \A i \in CallsOf(SnQuery) :
              /\ calls[i].with = TrimmedFragments(post.sn)
              /\ \E j \in CallsOf(ParserCall) : j < i
        /\ \A i \in CallsOf(BarcodeQuery) :
              calls[i].with = TrimmedFragments(post.barcode)

C24_Witness ==
    /\ form[Client] = "AddDeviceForm"
    /\ pc[Client] = "invalid"
    /\ CallsOf(SnQuery) # {}
    /\ CallsOf(BarcodeQuery) # {}
    /\ Len(TrimmedFragments(post.sn)) = 2
    /\ errors[Client].sn.kind = UniquenessConflict

\* C21: clean reports LengthMismatch on the barcode field only when both
\* the sn field and the barcode field passed their own validation: when
\* the sn field was rejected, an otherwise valid barcode list gets no
\* LengthMismatch error.  clean reads the rejected sn as the empty list
\* and compares lengths all the same: TLC finds this violated.
C21_MismatchOnlyWhenBothPassed ==
    (JustValidated /\ ~SnAcceptable /\ BarcodeAcceptable) =>
        errors[Client].barcode = NoError

(***************************************************************************)
(* Claims about form construction, checked under SpecCtor.                 *)
(***************************************************************************)
\* The mode the caller supplied: None when the argument is absent.
SuppliedMode == dict_get(ctor.args, "mode")
ModeAbsent == "mode" \notin DOMAIN ctor.args

\* C13: constructing a BasePartForm without a mode (absent, None or empty)
\* fails with ModeNotSetException, which is none of the validation
\* errors; it is raised before the base form is initialised and before any
\* device or source_device field exists, and it is never raised when a
\* non-empty mode is supplied.
C13_ModeNotSet ==
    (ctor.cls = "BasePartForm" /\ ctor.pc # "called") =>
        /\ ~Truthy(SuppliedMode) =>
              /\ ctor.pc = "raised"
              /\ ctor.exception = ModeNotSetException
              /\ ctor.exception \notin SnErrorKinds \cup BarcodeErrorKinds
              /\ ~ctor.base_initialised
              /\ ctor.fields = NoFields
        /\ Truthy(SuppliedMode) => ctor.exception # ModeNotSetException

C13_Witness ==
    /\ ctor.cls = "BasePartForm"
    /\ ctor.pc = "raised"
    /\ "mode" \in DOMAIN ctor.args
    /\ SuppliedMode = <<>>

\* C14: on a part form the device and source_device fields are bound to
\* one channel, the data-center device channel exactly when mode is "dc"
\* and the back-office device channel for every other non-empty mode; the
\* search form binds its device field by the same rule, with the
\* back-office channel when mode is absent.
C14_ChannelByMode ==
    ctor.pc = "done" =>
        /\ ctor.cls = "BasePartForm" =>
              /\ ctor.fields["device"].channel = ctor.fields["source_device"].channel
              /\ ctor.fields["device"].channel =
                    IF SuppliedMode = ModeDc THEN "asset_dcdevice" ELSE "asset_bodevice"
        /\ ctor.cls = "SearchAssetForm" =>
              ctor.fields["device"].channel =
                  IF SuppliedMode = ModeDc THEN "asset_dcdevice" ELSE "asset_bodevice"

C14_Witness ==
    /\ ctor.pc = "done"
    /\ ctor.cls = "BasePartForm"
    /\ SuppliedMode = ModeBo
    /\ ctor.fields["source_device"].channel = "asset_bodevice"

\* C15: on the asset forms the type choices built with mode "dc" and the
\* type choices built with any other mode value are non-empty and have no
\* choice in common.  Only "back_office" is filtered to the back-office
\* choices; with another value such as "bo" the type field keeps every
\* choice, the data-center ones included: TLC finds this violated.
C15_ChoicesDisjoint ==
    (ctor.cls \in AssetForms /\ ctor.pc = "done") =>
        /\ ctor.fields["type"].choices # {}
        /\ SuppliedMode = ModeDc => ctor.fields["type"].choices = AssetTypeDC
        /\ (Truthy(SuppliedMode) /\ SuppliedMode # ModeDc) =>
              ctor.fields["type"].choices \cap AssetTypeDC = {}

\* C23: in every constructor that accepts mode (BaseAssetForm,
\* BaseAddAssetForm, BasePartForm, SearchAssetForm), whenever the
\* framework's base constructor is reached, the keyword arguments handed
\* to it no longer contain 'mode', whatever value the caller passed,
\* None and the empty string included.  The key is deleted only under
\* `if mode:`, so a mode of None or '' stays in kwargs in the three
\* constructors that do not raise: TLC finds this violated.
C23_ModeRemovedBeforeBase ==
    /\ ctor.pc = "mode_read" => "mode" \notin DOMAIN ctor.kwargs
    /\ ctor.pc = "raised" => ctor.exception # TypeError

(***************************************************************************)
(* Claim about DeviceForm.clean_size, checked under SpecSize.              *)
(***************************************************************************)
\* C20: clean_size accepts a size exactly when it is an integer from 0 to
\* 65535 inclusive, as its error message states, and rejects every other
\* value (65535 + 1, negative values, a missing value) with the "Invalid
\* size" error.  range(0, 65535) stops at 65534, so 65535 itself is
\* rejected: TLC finds this violated.
C20_SizeRange ==
    Done =>
        /\ ret.ok <=> (arg.is_int /\ 0 <= arg.int /\ arg.int <= 65535)
        /\ ret.ok => ret.items = arg
        /\ ~ret.ok => ret.error = InvalidSize

(***************************************************************************)
(* Claim about bulk edit, checked under SpecBulk.                          *)
(***************************************************************************)
\* A barcode left blank: the empty string, or no value at all.
Blank(value) == value \in {<<>>, None}

\* A stored asset other than the row's own holds the value in the column.
AnotherAssetHolds(row, column, value) ==
    \E k \in DOMAIN BulkStore :
        BulkStore[k].id # row.id /\ BulkStore[k][column] = value

\* The row fails: no date, a required field missing, or an sn or barcode
\* that another stored asset holds.
RowFails(row) ==
    \/ row.invoice_date # "2011-02-03"
    \/ row.model = ""
    \/ row.sn = <<>>
    \/ AnotherAssetHolds(row, "sn", row.sn)
    \/ ~Blank(row.barcode) /\ AnotherAssetHolds(row, "barcode", row.barcode)

\* Two rows of the submission ask for the same sn or the same barcode.
RowsClash ==
    \E i, j \in DOMAIN formset.rows :
        /\ i # j
        /\ \/ formset.rows[i].sn = formset.rows[j].sn
           \/ /\ ~Blank(formset.rows[i].barcode)
              /\ formset.rows[i].barcode = formset.rows[j].barcode

EveryRowValidates ==
    (\A i \in DOMAIN formset.rows : ~RowFails(formset.rows[i])) /\ ~RowsClash

\* C18: a bulk-edit submission is all or nothing.  If any row fails
\* validation (an invalid date, a missing required field, a serial number
\* that another stored asset holds, reported as "Asset with this Sn
\* already exists."), no row is saved and there is no redirect; if every
\* row validates, every row is saved with its submitted values and the
\* request redirects.
C18_BulkAllOrNothing ==
    formset.pc # "submitted" =>
        /\ ~EveryRowValidates =>
              /\ formset.pc = "invalid"
              /\ store = BulkStore
        /\ \A i \in DOMAIN formset.rows :
              AnotherAssetHolds(formset.rows[i], "sn", formset.rows[i].sn) =>
                  formset.errors[i].sn = AlreadyExists
        /\ EveryRowValidates =>
              /\ formset.pc \in {"saving", "redirect"}
              /\ formset.pc = "redirect" =>
                    \A i \in DOMAIN formset.rows :
                        LET row == formset.rows[i] IN
                        /\ store[row.id].sn = row.sn
                        /\ store[row.id].barcode =
                              IF Blank(row.barcode) THEN None ELSE row.barcode
        /\ \A k \in DOMAIN store :
              (\A i \in DOMAIN formset.rows : formset.rows[i].id # k) =>
                  store[k] = BulkStore[k]

C18_Witness ==
    /\ formset.pc = "redirect"
    /\ Len(formset.rows) = 2
    /\ formset.rows[1].barcode = <<>>
    /\ formset.rows[2].barcode = <<>>
    /\ store[1].sn # BulkStore[1].sn

\* The row is in order but for its barcode.
RowFailsBesidesBarcode(row) ==
    \/ row.invoice_date # "2011-02-03"
    \/ row.model = ""
    \/ row.sn = <<>>
    \/ AnotherAssetHolds(row, "sn", row.sn)

AllBarcodesBlank == \A i \in DOMAIN formset.rows : Blank(formset.rows[i].barcode)

\* C25: BarcodeField.to_python maps every empty value (the empty string or
\* None) to None and returns every non-empty value unchanged; so in bulk
\* edit any number of rows with a blank barcode are cleaned to None, not
\* to the same empty string: a blank barcode is no error of its row, rows
\* whose barcodes are all blank never collide with each other on the
\* barcode, and the assets are saved with the barcode None.
C25_BlankBarcodesCleanToNone ==
    /\ \A value \in RowBarcodes :
          BarcodeField_to_python(value) = IF Blank(value) THEN None ELSE value
    /\ formset.pc \notin {"none", "submitted"} =>
          /\ \A i \in DOMAIN formset.rows :
                Blank(formset.rows[i].barcode) => formset.errors[i].barcode = "none"
          /\ ( /\ AllBarcodesBlank
               /\ \A i \in DOMAIN formset.rows :
                     ~RowFailsBesidesBarcode(formset.rows[i])
               /\ \A i, j \in DOMAIN formset.rows :
                     i # j => formset.rows[i].sn # formset.rows[j].sn )
                => formset.pc \in {"saving", "redirect"}
          /\ formset.pc = "redirect" =>
                \A i \in DOMAIN formset.rows :
                    Blank(formset.rows[i].barcode) =>
                        store[formset.rows[i].id].barcode = None

C25_Witness ==
    /\ formset.pc = "redirect"
    /\ Len(formset.rows) = 2
    /\ formset.rows[1].barcode = <<>>
    /\ formset.rows[2].barcode = None
    /\ store[1].barcode = None
    /\ store[2].barcode = None

(***************************************************************************)
(* Claim about the two parsers, checked under SpecParse.                   *)
(***************************************************************************)
\* Nothing but whitespace, or nothing at all.
WhitespaceOnly(s) == \A i \in DOMAIN s : s[i] \in Whitespace

\* clean_barcode on the parser's input, with a store that holds no asset.
BarcodeParse == clean_barcode(arg, <<>>)

\* C22: the store lookup aside, the barcode parser of clean_barcode and
\* _validate_multivalue_data agree on every input: one accepts it with a
\* non-empty token list iff the other accepts it with the same list, and
\* they reject the same inputs; the one difference is that an empty or
\* whitespace-only input gives the barcode parser the empty list and the
\* serial-number parser an error.
C22_ParsersAgree ==
    Done =>
        IF WhitespaceOnly(arg)
        THEN /\ ~ret.ok
             /\ BarcodeParse.ok
             /\ BarcodeParse.value = <<>>
        ELSE /\ ret.ok <=> BarcodeParse.ok
             /\ ret.ok => (ret.items = BarcodeParse.value /\ ret.items # <<>>)

C22_Witness ==
    /\ ret.ok
    /\ Len(ret.items) >= 2
    /\ BarcodeParse.value = ret.items
    /\ " " \in Range(arg)

(***************************************************************************)
(* Claim about the menu, checked under SpecMenu.                           *)
(***************************************************************************)
SubmoduleNames == {ret.submodules[i].name : i \in DOMAIN ret.submodules}

\* C26: the menu is consistent with itself.  Every key of the mapping
\* returned by get_sidebar_items is the name of a menu item returned by
\* get_submodules, the submodules' names are pairwise distinct, every
\* sidebar entry under 'search_dc' carries mode 'dc' and every entry under
\* 'search_back_office' carries mode 'back_office', and 'assets_reports'
\* holds exactly one entry per registered report, in registration order.
C26_MenuConsistent ==
    /\ "get_submodules" \in ret.called =>
          \A i, j \in DOMAIN ret.submodules :
              i # j => ret.submodules[i].name # ret.submodules[j].name
    /\ ret.called = {"get_submodules", "get_sidebar_items"} =>
          DOMAIN ret.sidebar \subseteq SubmoduleNames
    /\ "get_sidebar_items" \in ret.called =>
          /\ {"search_dc", "search_back_office", "assets_reports"}
                \subseteq DOMAIN ret.sidebar
          /\ \A i \in DOMAIN ret.sidebar.search_dc :
                ret.sidebar.search_dc[i].view_kwargs.mode = ModeDc
          /\ \A i \in DOMAIN ret.sidebar.search_back_office :
                ret.sidebar.search_back_office[i].view_kwargs.mode = ModeBackOffice
          /\ DOMAIN ret.sidebar.assets_reports = DOMAIN arg
          /\ \A i \in DOMAIN arg :
                /\ ret.sidebar.assets_reports[i].name = arg[i].name
                /\ ret.sidebar.assets_reports[i].label = arg[i].name
                /\ ret.sidebar.assets_reports[i].view_kwargs.slug = arg[i].slug

C26_Witness ==
    /\ ret.called = {"get_submodules", "get_sidebar_items"}
    /\ Len(arg) >= 2
    /\ arg[1] # arg[2]
    /\ Len(ret.sidebar.assets_reports) = Len(arg)
====
